---- MODULE Spec2Model ----
(***************************************************************************)
(* Model of SimpleVectorStore (src/vector_store.py): an in-memory cache of *)
(* two insertion-ordered dicts (vectors, texts) over one SQLite table      *)
(* "vectors" reached through one connection.                               *)
(*                                                                         *)
(* The table is a sequence of rows in rowid order; the connection works on *)
(* its own view of the table while a transaction is open and the view      *)
(* becomes the committed table on commit, or is dropped when the           *)
(* connection is closed.  A Python dict is a sequence of key/value entries *)
(* in insertion order.  Every operation of the store is one action that    *)
(* runs the whole method and records its outcome in ret.                   *)
(*                                                                         *)
(* Two further parts stand beside the store: the module-level handle       *)
(* (_store, get_vector_store, close_vector_store) with its callers, and    *)
(* the users table of src/db.py with its workers.  Each part has its own   *)
(* next-state relation and leaves the variables of the others alone.       *)
(***************************************************************************)
EXTENDS Integers, Sequences, FiniteSets, TLC

VARIABLES rows, work, in_transaction, conn, vectors, texts, used, ret,
          restarts, corruptions, steps

\* Number of times the current instance has run _load_all_vectors.
VARIABLE loads

\* The module-level handle of src/vector_store.py and its callers:
\* _store is the global (None or an instance), made the number of instances
\* constructed so far (instance i is the i-th constructed), owner the thread
\* that constructed each instance (its sqlite3 connection can only be used
\* in that thread), closed the instances whose connection is closed, hpc
\* the position of each caller inside get_vector_store or
\* close_vector_store, got the value each caller was returned last,
\* closing the instance each caller's close_vector_store has closed, built
\* and returned the constructions and the returned values since the last
\* close_vector_store, hret the last call completed, hcalls the number of
\* calls started.
VARIABLES _store, made, owner, closed, hpc, got, closing, built, returned,
          hret, hcalls

storeVars == <<rows, work, in_transaction, conn, vectors, texts, used, ret,
               restarts, corruptions, steps, loads>>

handleVars == <<_store, made, owner, closed, hpc, got, closing, built,
                returned, hret, hcalls>>

\* The users table of src/db.py for one user_id and the workers calling
\* the functions of the module: user_row tells whether the committed row
\* exists, tokens_remaining and pass_expiry are its columns; readers are
\* the workers whose connection holds a SHARED lock on the database (a
\* SELECT that found the row and has not been fetched yet), lock is the
\* worker whose connection holds the write lock in an open transaction (0
\* when none), leak tells that the write lock is held by the connection of
\* a call that raised, and pending that this connection holds it as a
\* PENDING lock, which refuses readers as well; now is the clock in days;
\* tpc, tcall, amount and expiry are each worker's position, current call
\* and arguments, u_tokens and u_expiry the columns of the row
\* get_or_create_user returned to it (u in the source); granted counts the
\* decrement_token calls that returned True, added sums the amounts of the
\* add_tokens calls, tret is the last call completed and tcalls the number
\* of calls started.
VARIABLES user_row, tokens_remaining, pass_expiry, readers, lock, leak,
          pending, now, tpc, tcall, amount, expiry, u_tokens, u_expiry,
          granted, added, tret, tcalls

tokenVars == <<user_row, tokens_remaining, pass_expiry, readers, lock, leak,
               pending, now, tpc, tcall, amount, expiry, u_tokens, u_expiry,
               granted, added, tret, tcalls>>

vars == <<storeVars, handleVars, tokenVars>>

(***************************************************************************)
(* Bounds of the exploration.                                              *)
(***************************************************************************)
MaxBatch == 2
MaxK == 2
MaxRestarts == 2
MaxCorruptions == 1
MaxSteps == 4

(***************************************************************************)
(* Input universe.                                                         *)
(***************************************************************************)
Texts == {"a", "b", "c"}

\* An id argument sqlite3 cannot bind (a Python list, say): execute raises.
BadId == "<unbindable>"

IdArgs == {"x", BadId}

Min(a, b) == IF a <= b THEN a ELSE b

Max(a, b) == IF a >= b THEN a ELSE b

SeqsUpTo(S, n) == UNION {[1..m -> S] : m \in 0..n}

(***************************************************************************)
(* Embedding provider: model.encode, a fixed deterministic map from text   *)
(* to a vector.  All embeddings have norm 5 (a normalising model).         *)
(***************************************************************************)
Encode(t) ==
    CASE t = "a" -> <<5, 0>>
      [] t = "b" -> <<0, 5>>
      [] t = "c" -> <<4, 3>>

Dot(u, v) == u[1] * v[1] + u[2] * v[2]

\* np.linalg.norm; the embeddings have integral norms.
Norm(v) == CHOOSE n \in 0..Dot(v, v) : n * n = Dot(v, v)

(***************************************************************************)
(* pickle.dumps / pickle.loads of a vector.  The blob starts with the      *)
(* pickle protocol opcode; anything else cannot be loaded.                 *)
(***************************************************************************)
PickleProto == 128

PickleDumps(v) == <<PickleProto>> \o v

Unreadable(b) == Len(b) = 0 \/ b[1] # PickleProto

PickleLoads(b) == Tail(b)

JunkBlob == <<0>>

(***************************************************************************)
(* Python dict as a sequence of entries in insertion order.                *)
(***************************************************************************)
DictKeys(d) == {d[i].k : i \in 1..Len(d)}

DictIndex(d, key) == CHOOSE i \in 1..Len(d) : d[i].k = key

DictGet(d, key) == d[DictIndex(d, key)].v

\* d[key] = val : an existing key keeps its position, a new key goes last.
DictSet(d, key, val) ==
    IF key \in DictKeys(d)
    THEN [d EXCEPT ![DictIndex(d, key)] = [k |-> key, v |-> val]]
    ELSE Append(d, [k |-> key, v |-> val])

(***************************************************************************)
(* The table: id TEXT PRIMARY KEY, text, vector BLOB, in rowid order.      *)
(***************************************************************************)
RowIds(t) == {t[i].id : i \in 1..Len(t)}

RowsOf(t, id) == {i \in 1..Len(t) : t[i].id = id}

RECURSIVE DeleteId(_, _)
DeleteId(t, id) ==
    IF t = <<>> THEN <<>>
    ELSE IF Head(t).id = id THEN DeleteId(Tail(t), id)
    ELSE <<Head(t)>> \o DeleteId(Tail(t), id)

\* A table without the PRIMARY KEY conflict clause: the row is only added.
InsertNoReplace(t, id, text, blob) ==
    Append(t, [id |-> id, text |-> text, blob |-> blob])

\* INSERT OR REPLACE: the conflicting row is deleted, the new row gets the
\* next rowid and so comes last in a table scan.
InsertOrReplace(t, id, text, blob) ==
    Append(DeleteId(t, id), [id |-> id, text |-> text, blob |-> blob])

(***************************************************************************)
(* Outcome of the last call: what was called, with which arguments,        *)
(* whether it returned (ok) or raised (err), and the returned value.       *)
(* first is TRUE when the call was the first one made on the instance,     *)
(* loaded when the call ran _load_all_vectors, and replaced holds the ids   *)
(* the call wrote that the table already had.                              *)
(***************************************************************************)
NoRet(op) ==
    [op |-> op, ok |-> TRUE, err |-> "", value |-> <<>>, texts |-> <<>>,
     ids |-> <<>>, q |-> "", k |-> 0, first |-> FALSE, loaded |-> FALSE,
     replaced |-> {}]

(***************************************************************************)
(* add_texts                                                               *)
(***************************************************************************)
\* Ordinals that continue after the records already cached.
DefaultIdsGlobal(txts) ==
    [i \in 1..Len(txts) |-> "doc_" \o ToString(Len(vectors) + i - 1)]

\* ids = [f"doc_{i}" for i in range(len(texts))]
DefaultIds(txts) == [i \in 1..Len(txts) |-> "doc_" \o ToString(i - 1)]

\* cursor.execute("INSERT OR REPLACE ...", (doc_id, text, vector_bytes)):
\* binding a parameter of an unsupported type raises.
ExecuteRaises(doc_id) == doc_id = BadId

\* The loop body with the vectors dict assigned before the execute.
AddOneVectorFirst(st, doc_id, text) ==
    IF ExecuteRaises(doc_id)
    THEN [st EXCEPT !.err = "ProgrammingError",
                    !.vectors = DictSet(st.vectors, doc_id, Encode(text))]
    ELSE [st EXCEPT
            !.work = InsertOrReplace(st.work, doc_id, text,
                                     PickleDumps(Encode(text))),
            !.vectors = DictSet(st.vectors, doc_id, Encode(text)),
            !.texts = DictSet(st.texts, doc_id, text)]

\* One pass of the loop body for the i-th pair of zip(ids, texts, embeddings).
AddOne(st, doc_id, text) ==
    IF ExecuteRaises(doc_id)
    THEN [st EXCEPT !.err = "ProgrammingError"]
    ELSE [st EXCEPT
            !.work = InsertOrReplace(st.work, doc_id, text,
                                     PickleDumps(Encode(text))),
            !.vectors = DictSet(st.vectors, doc_id, Encode(text)),
            !.texts = DictSet(st.texts, doc_id, text)]

\* for doc_id, text, embedding in zip(ids, texts, embeddings): zip stops at
\* the shorter argument; the loop stops at the first statement that raises.
RECURSIVE AddLoop(_, _, _, _)
AddLoop(st, ids, txts, i) ==
    IF i > Min(Len(ids), Len(txts)) \/ st.err # ""
    THEN st
    ELSE AddLoop(AddOne(st, ids[i], txts[i]), ids, txts, i + 1)

\* add_texts that does not notice the closed connection and writes anyway.
AddTextsBodyNoCheck(txts, ids) ==
    LET st == AddLoop([work |-> work, vectors |-> vectors,
                       texts |-> texts, err |-> ""], ids, txts, 1)
    IN  /\ vectors' = st.vectors
        /\ texts' = st.texts
        /\ work' = st.work
        /\ in_transaction' = (st.err # "")
        /\ rows' = IF st.err # "" THEN rows ELSE st.work
        /\ ret' = [NoRet("add_texts") EXCEPT !.ok = (st.err = ""),
                     !.err = st.err, !.texts = txts, !.ids = ids,
                     !.value = IF st.err = "" THEN ids ELSE <<>>,
                     !.first = ~used]

AddTextsBody(txts, ids) ==
    IF conn = "closed"
    THEN \* self.conn.cursor() raises on a closed connection
         /\ ret' = [NoRet("add_texts") EXCEPT !.ok = FALSE,
                      !.err = "ProgrammingError", !.texts = txts,
                      !.ids = ids, !.first = ~used]
         /\ UNCHANGED <<rows, work, in_transaction, vectors, texts>>
    ELSE LET st == AddLoop([work |-> work, vectors |-> vectors,
                            texts |-> texts, err |-> ""], ids, txts, 1)
             n == Min(Len(ids), Len(txts))
             old == {ids[i] : i \in 1..n} \cap RowIds(work)
         IN  /\ vectors' = st.vectors
             /\ texts' = st.texts
             /\ work' = st.work
             /\ IF st.err # ""
                THEN \* the exception leaves before self.conn.commit()
                     /\ in_transaction' = TRUE
                     /\ UNCHANGED rows
                     /\ ret' = [NoRet("add_texts") EXCEPT !.ok = FALSE,
                                  !.err = st.err, !.texts = txts,
                                  !.ids = ids, !.first = ~used]
                ELSE \* self.conn.commit(); return ids
                     /\ in_transaction' = FALSE
                     /\ rows' = st.work
                     /\ ret' = [NoRet("add_texts") EXCEPT !.value = ids,
                                  !.texts = txts, !.ids = ids,
                                  !.first = ~used, !.replaced = old]

\* add_texts(texts): ids omitted.
AddTextsDefault ==
    \E txts \in SeqsUpTo(Texts, MaxBatch) :
        /\ AddTextsBody(txts, DefaultIds(txts))
        /\ used' = TRUE
        /\ UNCHANGED <<conn, restarts, corruptions>>

\* add_texts(texts, ids=ids).
AddTextsIds ==
    \E txts \in SeqsUpTo(Texts, MaxBatch), ids \in SeqsUpTo(IdArgs, MaxBatch) :
        /\ AddTextsBody(txts, ids)
        /\ used' = TRUE
        /\ UNCHANGED <<conn, restarts, corruptions>>

(***************************************************************************)
(* _load_all_vectors                                                       *)
(***************************************************************************)
\* for doc_id, text, vector_bytes in cursor.fetchall(): the rows the
\* connection sees, in rowid order; pickle.loads raises on a bad blob before
\* either dict is assigned.
RECURSIVE LoadLoop(_, _, _)
LoadLoop(st, t, i) ==
    IF i > Len(t) \/ st.err # ""
    THEN st
    ELSE IF Unreadable(t[i].blob)
    THEN [st EXCEPT !.err = "UnpicklingError"]
    ELSE LoadLoop([st EXCEPT
                     !.vectors = DictSet(st.vectors, t[i].id,
                                         PickleLoads(t[i].blob)),
                     !.texts = DictSet(st.texts, t[i].id, t[i].text)],
                  t, i + 1)

LoadAllVectors(st) ==
    IF conn = "closed"
    THEN [st EXCEPT !.err = "ProgrammingError"]
    ELSE LoadLoop(st, work, 1)

(***************************************************************************)
(* similarity_search                                                       *)
(***************************************************************************)
\* The load condition inverted: if self.vectors: self._load_all_vectors()
HydrateInverted(st) == IF st.vectors # <<>> THEN LoadAllVectors(st) ELSE st

\* if not self.vectors: self._load_all_vectors()
Hydrate(st) == IF st.vectors = <<>> THEN LoadAllVectors(st) ELSE st

\* sim = dot(q, v) / (norm(q) * norm(v) + 1e-8), kept as the pair
\* num = dot(q, v), den = norm(q) * norm(v).
Similarity(qe, v) == [num |-> Dot(qe, v), den |-> Norm(qe) * Norm(v)]

\* a.num / (a.den + eps) < b.num / (b.den + eps) for 0 < eps = 1e-8:
\* the sign of (a.num * b.den - b.num * a.den) + eps * (a.num - b.num).
SimLess(a, b) ==
    LET d == a.num * b.den - b.num * a.den
    IN  IF d # 0 THEN d < 0 ELSE a.num < b.num

\* similarities.append((self.texts[doc_id], float(sim))) in dict order.
Similarities(vecs, txts, qe) ==
    [i \in 1..Len(vecs) |->
        [text |-> DictGet(txts, vecs[i].k), sim |-> Similarity(qe, vecs[i].v)]]

\* The sort without reverse=True.
RECURSIVE InsertAsc(_, _)
InsertAsc(s, e) ==
    IF s = <<>> THEN <<e>>
    ELSE IF SimLess(e.sim, Head(s).sim) THEN <<e>> \o s
    ELSE <<Head(s)>> \o InsertAsc(Tail(s), e)

\* list.sort(key=..., reverse=True) is stable: an element goes after the
\* elements that are not smaller than it.
RECURSIVE InsertDesc(_, _)
InsertDesc(s, e) ==
    IF s = <<>> THEN <<e>>
    ELSE IF SimLess(Head(s).sim, e.sim) THEN <<e>> \o s
    ELSE <<Head(s)>> \o InsertDesc(Tail(s), e)

RECURSIVE SortDesc(_, _)
SortDesc(s, acc) ==
    IF s = <<>> THEN acc ELSE SortDesc(Tail(s), InsertDesc(acc, Head(s)))

\* An off-by-one slice: similarities[:k + 1].
SliceOneMore(s, k) ==
    LET stop == IF k + 1 >= 0 THEN Min(k + 1, Len(s))
                ELSE Max(Len(s) + k + 1, 0)
    IN  SubSeq(s, 1, stop)

\* similarities[:k] : a negative k counts from the end.
Slice(s, k) ==
    LET stop == IF k >= 0 THEN Min(k, Len(s)) ELSE Max(Len(s) + k, 0)
    IN  SubSeq(s, 1, stop)

SimilaritySearch ==
    \E q \in Texts, k \in (0 - MaxK)..MaxK :
        LET st == Hydrate([vectors |-> vectors, texts |-> texts, err |-> ""])
            missing == DictKeys(st.vectors) \ DictKeys(st.texts)
            err == IF st.err # "" THEN st.err
                   ELSE IF missing # {} THEN "KeyError" ELSE ""
        IN  /\ vectors' = st.vectors
            /\ texts' = st.texts
            /\ ret' = IF err # ""
                      THEN [NoRet("similarity_search") EXCEPT !.ok = FALSE,
                              !.err = err, !.q = q, !.k = k, !.first = ~used,
                              !.loaded = (vectors = <<>>)]
                      ELSE [NoRet("similarity_search") EXCEPT
                              !.value = Slice(SortDesc(Similarities(
                                  st.vectors, st.texts, Encode(q)), <<>>), k),
                              !.q = q, !.k = k, !.first = ~used,
                              !.loaded = (vectors = <<>>)]
            /\ used' = TRUE
            /\ UNCHANGED <<rows, work, in_transaction, conn, restarts,
                           corruptions>>

(***************************************************************************)
(* close, and a new instance on the same path                              *)
(***************************************************************************)
\* A close that also drops the cache.
CloseClearing ==
    /\ conn' = "closed"
    /\ work' = rows
    /\ in_transaction' = FALSE
    /\ vectors' = <<>>
    /\ texts' = <<>>
    /\ ret' = [NoRet("close") EXCEPT !.first = ~used]
    /\ used' = TRUE
    /\ UNCHANGED <<rows, restarts, corruptions>>

\* self.conn.close(): an open transaction is rolled back; closing a closed
\* connection does nothing.  The cache is not touched.
Close ==
    /\ conn' = "closed"
    /\ work' = rows
    /\ in_transaction' = FALSE
    /\ ret' = [NoRet("close") EXCEPT !.first = ~used]
    /\ used' = TRUE
    /\ UNCHANGED <<rows, vectors, texts, restarts, corruptions>>

\* Process restart: the old connection goes away with the process and
\* SimpleVectorStore(db_path) is constructed again on the same file:
\* empty dicts, a fresh connection, CREATE TABLE IF NOT EXISTS.
Restart ==
    /\ restarts < MaxRestarts
    /\ restarts' = restarts + 1
    /\ conn' = "open"
    /\ work' = rows
    /\ in_transaction' = FALSE
    /\ vectors' = <<>>
    /\ texts' = <<>>
    /\ used' = FALSE
    /\ ret' = NoRet("__init__")
    /\ UNCHANGED <<rows, corruptions>>

(***************************************************************************)
(* Environment: a stored blob becomes unreadable (file damage, a foreign   *)
(* writer).  Only between transactions.                                    *)
(***************************************************************************)
CorruptBlob ==
    \E i \in 1..Len(rows) :
        /\ ~in_transaction
        /\ corruptions < MaxCorruptions
        /\ ~Unreadable(rows[i].blob)
        /\ corruptions' = corruptions + 1
        /\ rows' = [rows EXCEPT ![i].blob = JunkBlob]
        /\ work' = rows'
        /\ ret' = NoRet("corrupt")
        /\ UNCHANGED <<in_transaction, conn, vectors, texts, used, restarts>>

(***************************************************************************)
(* The global instance: get_vector_store, close_vector_store and close()   *)
(* on a returned instance, called by NumCallers callers.  Every read and   *)
(* write of the global _store is a step of its own so that callers can     *)
(* interleave: get_vector_store is the test of _store, the construction    *)
(* and assignment, and the return; close_vector_store is the test of       *)
(* _store, _store.close(), and the assignment of None.  An action that     *)
(* uses a connection takes the thread t the caller runs in: sqlite3        *)
(* refuses a connection in any thread but the one that created it.         *)
(***************************************************************************)
NumCallers == 2
MaxHandleCalls == 5

Callers == 1..NumCallers

\* _store: Optional[SimpleVectorStore] = None
None == 0

\* The thread of callers that all run in one thread.
MainThread == 1

HandleInit ==
    /\ _store = None
    /\ made = 0
    /\ owner = <<>>
    /\ closed = {}
    /\ hpc = [c \in Callers |-> "idle"]
    /\ got = [c \in Callers |-> None]
    /\ closing = [c \in Callers |-> None]
    /\ built = 0
    /\ returned = <<>>
    /\ hret = [op |-> "", caller |-> 0, value |-> None, err |-> ""]
    /\ hcalls = 0

AllIdle == \A c \in Callers : hpc[c] = "idle"

\* A caller starts a call.
StartCall(c) ==
    /\ hpc[c] = "idle"
    /\ hcalls < MaxHandleCalls
    /\ hcalls' = hcalls + 1

\* get_vector_store: if _store is None
GetCheck(c) ==
    /\ StartCall(c)
    /\ hpc' = [hpc EXCEPT ![c] = IF _store = None THEN "construct"
                                 ELSE "return"]
    /\ UNCHANGED <<_store, made, owner, closed, got, closing, built,
                   returned, hret>>

\* get_vector_store: _store = SimpleVectorStore(), the connection being
\* created in the caller's thread t.
GetConstruct(c, t) ==
    /\ hpc[c] = "construct"
    /\ made' = made + 1
    /\ owner' = Append(owner, t)
    /\ _store' = made + 1
    /\ built' = built + 1
    /\ hpc' = [hpc EXCEPT ![c] = "return"]
    /\ UNCHANGED <<closed, got, closing, returned, hret, hcalls>>

\* get_vector_store: return _store
GetReturn(c) ==
    /\ hpc[c] = "return"
    /\ got' = [got EXCEPT ![c] = _store]
    /\ returned' = Append(returned, _store)
    /\ hret' = [op |-> "get_vector_store", caller |-> c, value |-> _store,
                err |-> ""]
    /\ hpc' = [hpc EXCEPT ![c] = "idle"]
    /\ UNCHANGED <<_store, made, owner, closed, closing, built, hcalls>>

\* close_vector_store: if _store: -- the call returns when _store is None.
CloseCheck(c) ==
    /\ StartCall(c)
    /\ IF _store # None
       THEN /\ hpc' = [hpc EXCEPT ![c] = "close"]
            /\ UNCHANGED <<built, returned, hret>>
       ELSE /\ built' = 0
            /\ returned' = <<>>
            /\ hret' = [op |-> "close_vector_store", caller |-> c,
                        value |-> None, err |-> ""]
            /\ UNCHANGED hpc
    /\ UNCHANGED <<_store, made, owner, closed, got, closing>>

\* close_vector_store: _store.close() -- _store is read again; None has no
\* close, and the connection refuses a thread that did not create it.
CloseClose(c, t) ==
    /\ hpc[c] = "close"
    /\ IF _store = None
       THEN /\ hret' = [op |-> "close_vector_store", caller |-> c,
                        value |-> None, err |-> "AttributeError"]
            /\ hpc' = [hpc EXCEPT ![c] = "idle"]
            /\ UNCHANGED <<closed, closing>>
       ELSE IF owner[_store] # t
       THEN /\ hret' = [op |-> "close_vector_store", caller |-> c,
                        value |-> _store, err |-> "ProgrammingError"]
            /\ hpc' = [hpc EXCEPT ![c] = "idle"]
            /\ UNCHANGED <<closed, closing>>
       ELSE /\ closed' = closed \cup {_store}
            /\ closing' = [closing EXCEPT ![c] = _store]
            /\ hpc' = [hpc EXCEPT ![c] = "reset"]
            /\ UNCHANGED hret
    /\ UNCHANGED <<_store, made, owner, got, built, returned, hcalls>>

\* close_vector_store that closes the instance and keeps it in _store.
CloseResetSkipped(c) ==
    /\ hpc[c] = "reset"
    /\ built' = 0
    /\ returned' = <<>>
    /\ hret' = [op |-> "close_vector_store", caller |-> c,
                value |-> closing[c], err |-> ""]
    /\ hpc' = [hpc EXCEPT ![c] = "idle"]
    /\ UNCHANGED <<_store, made, owner, closed, got, closing, hcalls>>

\* close_vector_store: _store = None
CloseReset(c) ==
    /\ hpc[c] = "reset"
    /\ _store' = None
    /\ built' = 0
    /\ returned' = <<>>
    /\ hret' = [op |-> "close_vector_store", caller |-> c,
                value |-> closing[c], err |-> ""]
    /\ hpc' = [hpc EXCEPT ![c] = "idle"]
    /\ UNCHANGED <<made, owner, closed, got, closing, hcalls>>

\* store.close() on the instance the caller got from get_vector_store.
StoreClose(c, t) ==
    /\ StartCall(c)
    /\ got[c] # None
    /\ IF owner[got[c]] # t
       THEN /\ hret' = [op |-> "close", caller |-> c, value |-> got[c],
                        err |-> "ProgrammingError"]
            /\ UNCHANGED closed
       ELSE /\ closed' = closed \cup {got[c]}
            /\ hret' = [op |-> "close", caller |-> c, value |-> got[c],
                        err |-> ""]
    /\ UNCHANGED <<_store, made, owner, hpc, got, closing, built, returned>>

(***************************************************************************)
(* src/db.py: the functions on the users table for one user, called by     *)
(* NumWorkers workers.  Every call opens connections of its own.  Every    *)
(* SQL statement, fetch and commit is one step: the SELECT, its fetchone,  *)
(* the INSERT and its commit in get_or_create_user, and the UPDATE and its *)
(* commit in the caller.  A SELECT that finds the row holds a SHARED lock  *)
(* until the row is fetched.  An INSERT or UPDATE takes the database's     *)
(* write lock and keeps it until its connection commits or is closed.  A   *)
(* commit needs every SHARED lock of other connections gone.  A statement  *)
(* or commit that finds the lock it needs taken waits, and raises          *)
(* OperationalError when its timeout passes first.  The clock counts days. *)
(***************************************************************************)
NumWorkers == 2
MaxTokenCalls == 4
MaxAmount == 2
MaxDays == 1
MaxNow == 1

Workers == 1..NumWorkers

\* pass_expiry TEXT DEFAULT NULL
Null == <<>>

\* datetime.isoformat() of the time d days on the clock, in UTC.
IsoFormat(d) == <<d, "+00:00">>

\* datetime.fromisoformat(s)
FromIsoFormat(s) == s[1]

\* init_db(): the table exists and has no row.
TokenInit ==
    /\ user_row = FALSE
    /\ tokens_remaining = 0
    /\ pass_expiry = Null
    /\ readers = {}
    /\ lock = 0
    /\ leak = FALSE
    /\ pending = FALSE
    /\ now = 0
    /\ tpc = [w \in Workers |-> "idle"]
    /\ tcall = [w \in Workers |-> ""]
    /\ amount = [w \in Workers |-> 0]
    /\ expiry = [w \in Workers |-> Null]
    /\ u_tokens = [w \in Workers |-> 0]
    /\ u_expiry = [w \in Workers |-> Null]
    /\ granted = 0
    /\ added = 0
    /\ tret = [op |-> "", worker |-> 0, value |-> "", before |-> 0,
               after |-> 0]
    /\ tcalls = 0

\* No connection holds the write lock.
LockFree == lock = 0 /\ ~leak

\* A worker enters a function of the module, which calls
\* get_or_create_user first.
StartToken(w, f) ==
    /\ tpc[w] = "idle"
    /\ tcalls < MaxTokenCalls
    /\ tcalls' = tcalls + 1
    /\ tcall' = [tcall EXCEPT ![w] = f]
    /\ tpc' = [tpc EXCEPT ![w] = "select"]
    /\ UNCHANGED <<user_row, tokens_remaining, pass_expiry, readers, lock, leak,
                   pending, now,
                   u_tokens, u_expiry, granted, added, tret>>

\* A worker calls decrement_token(user_id).
StartDecrement(w) ==
    /\ StartToken(w, "decrement_token")
    /\ UNCHANGED <<amount, expiry>>

\* A worker calls add_tokens(user_id, amount).
StartAdd(w) ==
    \E a \in 1..MaxAmount :
        /\ StartToken(w, "add_tokens")
        /\ amount' = [amount EXCEPT ![w] = a]
        /\ UNCHANGED expiry

\* A worker calls set_pass_expiry(user_id, days): expiry is computed from
\* the clock before anything else.
StartSetPass(w) ==
    \E d \in 0..MaxDays :
        /\ StartToken(w, "set_pass_expiry")
        /\ expiry' = [expiry EXCEPT ![w] = IsoFormat(now + d)]
        /\ UNCHANGED amount

\* A worker calls has_valid_pass(user_id).
StartHasPass(w) ==
    /\ StartToken(w, "has_valid_pass")
    /\ UNCHANGED <<amount, expiry>>

\* A worker calls get_or_create_user(user_id) itself.
StartGetOrCreate(w) ==
    /\ StartToken(w, "get_or_create_user")
    /\ UNCHANGED <<amount, expiry>>

\* get_or_create_user: c.execute("SELECT * FROM users WHERE user_id = ?")
\* A row found leaves the statement open with a SHARED lock.
SelectUser(w) ==
    /\ tpc[w] = "select"
    /\ ~pending
    /\ IF user_row
       THEN /\ u_tokens' = [u_tokens EXCEPT ![w] = tokens_remaining]
            /\ u_expiry' = [u_expiry EXCEPT ![w] = pass_expiry]
            /\ readers' = readers \cup {w}
            /\ tpc' = [tpc EXCEPT ![w] = "fetch"]
       ELSE /\ tpc' = [tpc EXCEPT ![w] = "insert"]
            /\ UNCHANGED <<u_tokens, u_expiry, readers>>
    /\ UNCHANGED <<user_row, tokens_remaining, pass_expiry, lock, leak,
                   pending, now, tcall, amount, expiry, granted, added, tret,
                   tcalls>>

\* get_or_create_user: row = c.fetchone(); res = dict(row); conn.close();
\* return res
FetchUser(w) ==
    /\ tpc[w] = "fetch"
    /\ readers' = readers \ {w}
    /\ tpc' = [tpc EXCEPT ![w] = "update"]
    /\ UNCHANGED <<user_row, tokens_remaining, pass_expiry, lock, leak,
                   pending, now, tcall, amount, expiry, u_tokens, u_expiry,
                   granted, added, tret, tcalls>>

\* get_or_create_user: INSERT INTO users(user_id, tokens_remaining)
\* VALUES (?, 0); the primary key makes it raise when the row exists by
\* now, and the connection of the call that raised keeps the write lock.
InsertUser(w) ==
    /\ tpc[w] = "insert"
    /\ LockFree
    /\ IF user_row
       THEN /\ tpc' = [tpc EXCEPT ![w] = "idle"]
            /\ leak' = TRUE
            /\ tret' = [op |-> tcall[w], worker |-> w,
                        value |-> "IntegrityError",
                        before |-> tokens_remaining,
                        after |-> tokens_remaining]
            /\ UNCHANGED lock
       ELSE /\ lock' = w
            /\ tpc' = [tpc EXCEPT ![w] = "insert_commit"]
            /\ UNCHANGED <<leak, tret>>
    /\ UNCHANGED <<user_row, tokens_remaining, pass_expiry, readers, pending,
                   now, tcall, amount, expiry, u_tokens, u_expiry, granted,
                   added, tcalls>>

\* get_or_create_user: conn.commit(); conn.close(); return the new row.
InsertCommit(w) ==
    /\ tpc[w] = "insert_commit"
    /\ readers = {}
    /\ user_row' = TRUE
    /\ tokens_remaining' = 0
    /\ pass_expiry' = Null
    /\ lock' = 0
    /\ u_tokens' = [u_tokens EXCEPT ![w] = 0]
    /\ u_expiry' = [u_expiry EXCEPT ![w] = Null]
    /\ tpc' = [tpc EXCEPT ![w] = "update"]
    /\ UNCHANGED <<readers, leak, pending, now, tcall, amount, expiry,
                   granted, added, tret, tcalls>>

\* The UPDATE of the worker's call takes the write lock.
ExecuteUpdate(w) ==
    /\ tpc[w] = "update"
    /\ LockFree
    /\ lock' = w
    /\ tpc' = [tpc EXCEPT ![w] = "commit"]
    /\ UNCHANGED <<user_row, tokens_remaining, pass_expiry, readers, leak,
                   pending, now, tcall, amount, expiry, u_tokens, u_expiry,
                   granted, added, tret, tcalls>>

\* decrement_token: if u.get("tokens_remaining", 0) > 0:
\* UPDATE users SET tokens_remaining = tokens_remaining - 1
DecrementUpdate(w) ==
    /\ tcall[w] = "decrement_token"
    /\ u_tokens[w] > 0
    /\ ExecuteUpdate(w)

\* decrement_token: return False
DecrementRefuse(w) ==
    /\ tpc[w] = "update"
    /\ tcall[w] = "decrement_token"
    /\ u_tokens[w] <= 0
    /\ tret' = [op |-> "decrement_token", worker |-> w, value |-> "False",
                before |-> tokens_remaining, after |-> tokens_remaining]
    /\ tpc' = [tpc EXCEPT ![w] = "idle"]
    /\ UNCHANGED <<user_row, tokens_remaining, pass_expiry, readers, lock,
                   leak, pending, now, tcall, amount, expiry, u_tokens,
                   u_expiry, granted, added, tcalls>>

\* add_tokens: UPDATE users SET tokens_remaining = tokens_remaining + ?
AddUpdate(w) ==
    /\ tcall[w] = "add_tokens"
    /\ ExecuteUpdate(w)

\* set_pass_expiry: UPDATE users SET pass_expiry = ?
SetPassUpdate(w) ==
    /\ tcall[w] = "set_pass_expiry"
    /\ ExecuteUpdate(w)

\* The row after the UPDATE of call f with the arguments of worker w.
Updated(w, f) ==
    [tokens |-> CASE f = "decrement_token" -> tokens_remaining - 1
                  [] f = "add_tokens" -> tokens_remaining + amount[w]
                  [] OTHER -> tokens_remaining,
     expiry |-> IF f = "set_pass_expiry" THEN expiry[w] ELSE pass_expiry]

\* conn.commit(); conn.close() after the UPDATE, and the return of the call.
UpdateCommit(w) ==
    /\ tpc[w] = "commit"
    /\ readers = {}
    /\ tokens_remaining' = Updated(w, tcall[w]).tokens
    /\ pass_expiry' = Updated(w, tcall[w]).expiry
    /\ lock' = 0
    /\ granted' = granted + (IF tcall[w] = "decrement_token" THEN 1 ELSE 0)
    /\ added' = added + (IF tcall[w] = "add_tokens" THEN amount[w] ELSE 0)
    /\ tret' = [op |-> tcall[w], worker |-> w,
                value |-> IF tcall[w] = "decrement_token" THEN "True"
                          ELSE "None",
                before |-> tokens_remaining,
                after |-> Updated(w, tcall[w]).tokens]
    /\ tpc' = [tpc EXCEPT ![w] = "idle"]
    /\ UNCHANGED <<user_row, readers, leak, pending, now, tcall, amount,
                   expiry, u_tokens, u_expiry, tcalls>>

\* conn.commit() waited for the SHARED locks of other connections longer
\* than the connection's timeout: OperationalError (database is locked).
\* Nothing is committed, and the connection of the call that raised keeps
\* the write lock as a PENDING lock.
CommitBusy(w) ==
    /\ tpc[w] \in {"commit", "insert_commit"}
    /\ readers # {}
    /\ lock' = 0
    /\ leak' = TRUE
    /\ pending' = TRUE
    /\ tret' = [op |-> tcall[w], worker |-> w, value |-> "OperationalError",
                before |-> tokens_remaining, after |-> tokens_remaining]
    /\ tpc' = [tpc EXCEPT ![w] = "idle"]
    /\ UNCHANGED <<user_row, tokens_remaining, pass_expiry, readers, now,
                   tcall, amount, expiry, u_tokens, u_expiry, granted, added,
                   tcalls>>

\* has_valid_pass: no expiry gives False, else exp_dt > now.
HasValidPass(w) ==
    /\ tpc[w] = "update"
    /\ tcall[w] = "has_valid_pass"
    /\ tret' = [op |-> "has_valid_pass", worker |-> w,
                value |-> IF u_expiry[w] = Null THEN "False"
                          ELSE IF FromIsoFormat(u_expiry[w]) > now
                          THEN "True" ELSE "False",
                before |-> tokens_remaining, after |-> tokens_remaining]
    /\ tpc' = [tpc EXCEPT ![w] = "idle"]
    /\ UNCHANGED <<user_row, tokens_remaining, pass_expiry, readers, lock, leak,
                   pending, now,
                   tcall, amount, expiry, u_tokens, u_expiry, granted, added,
                   tcalls>>

\* get_or_create_user called by itself returns the row.
GetOrCreateReturn(w) ==
    /\ tpc[w] = "update"
    /\ tcall[w] = "get_or_create_user"
    /\ tret' = [op |-> "get_or_create_user", worker |-> w, value |-> "row",
                before |-> u_tokens[w], after |-> u_tokens[w]]
    /\ tpc' = [tpc EXCEPT ![w] = "idle"]
    /\ UNCHANGED <<user_row, tokens_remaining, pass_expiry, readers, lock, leak,
                   pending, now,
                   tcall, amount, expiry, u_tokens, u_expiry, granted, added,
                   tcalls>>

\* The worker's next statement is an INSERT or an UPDATE.
WritePending(w) ==
    \/ tpc[w] = "insert"
    \/ /\ tpc[w] = "update"
       /\ \/ tcall[w] \in {"add_tokens", "set_pass_expiry"}
          \/ tcall[w] = "decrement_token" /\ u_tokens[w] > 0

\* The worker's next statement cannot take the lock it needs: an INSERT or
\* UPDATE while the write lock is held, a SELECT while it is PENDING.
Blocked(w) ==
    \/ WritePending(w) /\ ~LockFree
    \/ tpc[w] = "select" /\ pending

\* The statement waited for its lock longer than the connection's timeout:
\* OperationalError (database is locked).
Busy(w) ==
    /\ Blocked(w)
    /\ tret' = [op |-> tcall[w], worker |-> w, value |-> "OperationalError",
                before |-> tokens_remaining, after |-> tokens_remaining]
    /\ tpc' = [tpc EXCEPT ![w] = "idle"]
    /\ UNCHANGED <<user_row, tokens_remaining, pass_expiry, readers, lock,
                   leak, pending, now, tcall, amount, expiry, u_tokens,
                   u_expiry, granted, added, tcalls>>

\* The exception of the call that raised is dropped: its connection is
\* collected and closed, which gives the write lock back.
ReleaseLeak ==
    /\ leak
    /\ leak' = FALSE
    /\ pending' = FALSE
    /\ UNCHANGED <<user_row, tokens_remaining, pass_expiry, readers, lock,
                   now, tpc, tcall, amount, expiry, u_tokens, u_expiry,
                   granted, added, tret, tcalls>>

\* A day passes.
ClockAdvance ==
    /\ now < MaxNow
    /\ now' = now + 1
    /\ UNCHANGED <<user_row, tokens_remaining, pass_expiry, readers, lock,
                   leak, pending, tpc, tcall, amount, expiry, u_tokens,
                   u_expiry, granted, added, tret, tcalls>>

(***************************************************************************)
(* Specification                                                           *)
(***************************************************************************)
\* SimpleVectorStore(db_path) on a path that does not exist yet.
Init ==
    /\ rows = <<>>
    /\ work = <<>>
    /\ in_transaction = FALSE
    /\ conn = "open"
    /\ vectors = <<>>
    /\ texts = <<>>
    /\ used = FALSE
    /\ ret = NoRet("__init__")
    /\ restarts = 0
    /\ corruptions = 0
    /\ steps = 0
    /\ loads = 0
    /\ HandleInit
    /\ TokenInit

\* Every step of the exploration counts against MaxSteps.
Tick ==
    /\ steps < MaxSteps
    /\ steps' = steps + 1
    /\ UNCHANGED <<handleVars, tokenVars>>

\* The call ran _load_all_vectors once more.
CountLoad == loads' = loads + (IF ret'.loaded THEN 1 ELSE 0)

Next ==
    \/ Tick /\ AddTextsDefault /\ UNCHANGED loads
    \/ Tick /\ AddTextsIds /\ UNCHANGED loads
    \/ Tick /\ SimilaritySearch /\ CountLoad
    \/ Tick /\ Close /\ UNCHANGED loads
    \/ Tick /\ Restart /\ loads' = 0
    \/ Tick /\ CorruptBlob /\ UNCHANGED loads

Spec == Init /\ [][Next]_vars

\* The handle used by callers that do not overlap and all run in the main
\* thread: a call starts only when no other call is under way.
NextSingleton ==
    \E c \in Callers :
        \/ AllIdle /\ GetCheck(c) /\ UNCHANGED <<storeVars, tokenVars>>
        \/ GetConstruct(c, MainThread) /\ UNCHANGED <<storeVars, tokenVars>>
        \/ GetReturn(c) /\ UNCHANGED <<storeVars, tokenVars>>
        \/ AllIdle /\ CloseCheck(c) /\ UNCHANGED <<storeVars, tokenVars>>
        \/ CloseClose(c, MainThread) /\ UNCHANGED <<storeVars, tokenVars>>
        \/ CloseReset(c) /\ UNCHANGED <<storeVars, tokenVars>>
        \/ AllIdle /\ StoreClose(c, MainThread)
           /\ UNCHANGED <<storeVars, tokenVars>>

SpecSingleton == Init /\ [][NextSingleton]_vars

\* The handle used by concurrent callers, caller c running in thread c: the
\* steps of their calls interleave freely.
NextRace ==
    \E c \in Callers :
        \/ GetCheck(c) /\ UNCHANGED <<storeVars, tokenVars>>
        \/ GetConstruct(c, c) /\ UNCHANGED <<storeVars, tokenVars>>
        \/ GetReturn(c) /\ UNCHANGED <<storeVars, tokenVars>>
        \/ CloseCheck(c) /\ UNCHANGED <<storeVars, tokenVars>>
        \/ CloseClose(c, c) /\ UNCHANGED <<storeVars, tokenVars>>
        \/ CloseReset(c) /\ UNCHANGED <<storeVars, tokenVars>>
        \/ StoreClose(c, c) /\ UNCHANGED <<storeVars, tokenVars>>

SpecRace == Init /\ [][NextRace]_vars

\* The calls of concurrent workers on the users table.
NextTokens ==
    \/ \E w \in Workers :
        \/ StartDecrement(w) /\ UNCHANGED <<storeVars, handleVars>>
        \/ StartAdd(w) /\ UNCHANGED <<storeVars, handleVars>>
        \/ StartSetPass(w) /\ UNCHANGED <<storeVars, handleVars>>
        \/ StartHasPass(w) /\ UNCHANGED <<storeVars, handleVars>>
        \/ StartGetOrCreate(w) /\ UNCHANGED <<storeVars, handleVars>>
        \/ SelectUser(w) /\ UNCHANGED <<storeVars, handleVars>>
        \/ FetchUser(w) /\ UNCHANGED <<storeVars, handleVars>>
        \/ InsertUser(w) /\ UNCHANGED <<storeVars, handleVars>>
        \/ InsertCommit(w) /\ UNCHANGED <<storeVars, handleVars>>
        \/ DecrementUpdate(w) /\ UNCHANGED <<storeVars, handleVars>>
        \/ DecrementRefuse(w) /\ UNCHANGED <<storeVars, handleVars>>
        \/ AddUpdate(w) /\ UNCHANGED <<storeVars, handleVars>>
        \/ SetPassUpdate(w) /\ UNCHANGED <<storeVars, handleVars>>
        \/ UpdateCommit(w) /\ UNCHANGED <<storeVars, handleVars>>
        \/ CommitBusy(w) /\ UNCHANGED <<storeVars, handleVars>>
        \/ HasValidPass(w) /\ UNCHANGED <<storeVars, handleVars>>
        \/ GetOrCreateReturn(w) /\ UNCHANGED <<storeVars, handleVars>>
        \/ Busy(w) /\ UNCHANGED <<storeVars, handleVars>>
    \/ ReleaseLeak /\ UNCHANGED <<storeVars, handleVars>>
    \/ ClockAdvance /\ UNCHANGED <<storeVars, handleVars>>

SpecTokens == Init /\ [][NextTokens]_vars

TypeOK ==
    /\ conn \in {"open", "closed"}
    /\ in_transaction \in BOOLEAN
    /\ used \in BOOLEAN
    /\ (~in_transaction) => work = rows

(***************************************************************************)
(* Properties                                                              *)
(***************************************************************************)
\* Number of (id, text) pairs a call of add_texts walks through.
ZipLen(r) == Min(Len(r.ids), Len(r.texts))

\* The text the call paired last with id x.
LastText(r, x) ==
    r.texts[CHOOSE j \in 1..ZipLen(r) :
                /\ r.ids[j] = x
                /\ \A j2 \in (j + 1)..ZipLen(r) : r.ids[j2] # x]

EntriesOf(d, key) == {i \in 1..Len(d) : d[i].k = key}

\* C1: after add_texts returns, every id it ingested has exactly one
\* committed row and exactly one entry in each dict, all holding the text
\* (and its embedding) that this call paired last with the id.
C1_LastWriteWins ==
    (ret.op = "add_texts" /\ ret.ok) =>
        \A j \in 1..ZipLen(ret) :
            LET x == ret.ids[j]
                t == LastText(ret, x)
            IN  /\ Cardinality(RowsOf(rows, x)) = 1
                /\ \A i \in RowsOf(rows, x) :
                       /\ rows[i].text = t
                       /\ ~Unreadable(rows[i].blob)
                       /\ PickleLoads(rows[i].blob) = Encode(t)
                /\ Cardinality(EntriesOf(vectors, x)) = 1
                /\ Cardinality(EntriesOf(texts, x)) = 1
                /\ DictGet(vectors, x) = Encode(t)
                /\ DictGet(texts, x) = t

\* An add_texts returned after writing an id the table already held.
C1_Witness ==
    /\ ret.op = "add_texts"
    /\ ret.ok
    /\ ret.replaced # {}
    /\ \E x \in ret.replaced : DictGet(texts, x) = "b"

\* A cache entry is backed when a committed row has its id, text and vector.
Backed(key) ==
    \E i \in 1..Len(rows) :
        /\ rows[i].id = key
        /\ key \in DictKeys(texts)
        /\ rows[i].text = DictGet(texts, key)
        /\ ~Unreadable(rows[i].blob)
        /\ PickleLoads(rows[i].blob) = DictGet(vectors, key)

\* C2: between calls (every state of the model, as each call is one step),
\* and with the stored blobs undamaged, every id in the in-memory mapping
\* has a committed row with the same text and vector.
C2_CacheSubsetOfDurable ==
    corruptions = 0 => \A key \in DictKeys(vectors) : Backed(key)

\* C3: after similarity_search returns a ranking, every record committed in
\* durable storage is among the ranked candidates (the mapping is fully
\* populated from durable storage).
C3_QuerySeesWholeDurableStore ==
    (ret.op = "similarity_search" /\ ret.ok /\ ret.k >= 1) =>
        RowIds(rows) \subseteq DictKeys(vectors)

CountText(s, t) == Cardinality({i \in 1..Len(s) : s[i].text = t})

\* The first call on an instance is a query, the stored blobs are undamaged
\* and k is at least the number of committed records.
FirstQueryCoversAll ==
    /\ ret.op = "similarity_search"
    /\ ret.first
    /\ corruptions = 0
    /\ ret.k >= Len(rows)

C4_FirstQueryReturnsAll ==
    FirstQueryCoversAll =>
        /\ ret.ok
        /\ Len(ret.value) = Len(rows)
        /\ \A t \in Texts : CountText(ret.value, t) = CountText(rows, t)

\* C4: the first similarity_search of an instance that received no other
\* call returns the text of every committed record (k permitting) with no
\* explicit load, and neither close nor the construction of a new instance
\* changes the committed records.
C4_LazyHydration ==
    /\ []C4_FirstQueryReturnsAll
    /\ [][ret'.op \in {"close", "__init__"} => rows' = rows]_vars

\* A new instance over two committed records answered its first call, a
\* query, with both.
C4_Witness ==
    /\ FirstQueryCoversAll
    /\ restarts >= 1
    /\ Len(rows) >= 2
    /\ Len(ret.value) = Len(rows)

\* C5: a similarity_search with k >= 1 that returns, returns min(k, n)
\* results for the n cached candidates; on an open store with nothing
\* stored and nothing cached it returns the empty sequence.
C5_KBound ==
    /\ (ret.op = "similarity_search" /\ ret.ok /\ ret.k >= 1) =>
           Len(ret.value) = Min(ret.k, Len(vectors))
    /\ (/\ ret.op = "similarity_search"
        /\ conn = "open"
        /\ work = <<>>
        /\ vectors = <<>>) => (ret.ok /\ ret.value = <<>>)

\* A query with k = 1 over two candidates returned one result.
C5_Witness ==
    /\ ret.op = "similarity_search"
    /\ ret.ok
    /\ ret.k = 1
    /\ Len(vectors) = 2
    /\ Len(ret.value) = 1

\* C6: a similarity_search with k <= 0 returns the empty sequence.
C6_NonPositiveK ==
    (ret.op = "similarity_search" /\ ret.ok /\ ret.k <= 0) =>
        ret.value = <<>>

Injective(f) == \A i, j \in DOMAIN f : f[i] = f[j] => i = j

\* The pair similarity_search computes for the i-th cache entry.
PairOf(i) ==
    [text |-> DictGet(texts, vectors[i].k),
     sim |-> Similarity(Encode(ret.q), vectors[i].v)]

\* C7: the result is ordered by similarity, non-increasing; its pairs are
\* the (text, score) pairs of distinct cache entries; and no entry left out
\* scores higher than the last pair returned.
C7_RankingOrder ==
    (ret.op = "similarity_search" /\ ret.ok) =>
        LET res == ret.value
            m == Len(res)
        IN  /\ \A i, j \in 1..m : i < j => ~SimLess(res[i].sim, res[j].sim)
            /\ \E f \in [1..m -> 1..Len(vectors)] :
                   /\ Injective(f)
                   /\ \A i \in 1..m : res[i] = PairOf(f[i])
                   /\ \A c \in 1..Len(vectors) :
                          (m >= 1 /\ \A i \in 1..m : f[i] # c) =>
                              ~SimLess(res[m].sim, PairOf(c).sim)

\* Three candidates with three different scores, the best two returned.
C7_Witness ==
    /\ ret.op = "similarity_search"
    /\ ret.ok
    /\ ret.k = 2
    /\ Len(vectors) = 3
    /\ Len(ret.value) = 2
    /\ SimLess(ret.value[2].sim, ret.value[1].sim)
    /\ \E c \in 1..Len(vectors) : SimLess(PairOf(c).sim, ret.value[2].sim)

\* C8: add_texts with ids of another length than texts raises
\* DimensionMismatch.
C8_IdsLengthCheck ==
    (ret.op = "add_texts" /\ Len(ret.ids) # Len(ret.texts)) =>
        (~ret.ok /\ ret.err = "DimensionMismatch")

\* Position of the pair whose durable write raised.
FailedAt(r) == CHOOSE j \in 1..ZipLen(r) :
                   /\ ExecuteRaises(r.ids[j])
                   /\ \A j2 \in 1..(j - 1) : ~ExecuteRaises(r.ids[j2])

\* C9: when a durable write of add_texts fails, the records of the batch
\* written before it are committed at the moment the call fails.
C9_NoPartialRollback ==
    (ret.op = "add_texts" /\ ~ret.ok /\ conn = "open") =>
        \A j \in 1..(FailedAt(ret) - 1) :
            \E i \in 1..Len(rows) : rows[i].id = ret.ids[j]

Readable(t) == {i \in 1..Len(t) : ~Unreadable(t[i].blob)}

\* C10: when exactly one of the stored blobs is unreadable, the load run by
\* similarity_search does not raise and caches all the other records.
C10_CorruptRecordSkipped ==
    (/\ ret.op = "similarity_search"
     /\ ret.loaded
     /\ conn = "open"
     /\ Len(work) >= 2
     /\ Cardinality(Readable(work)) = Len(work) - 1) =>
        /\ ret.ok
        /\ DictKeys(vectors) = {work[i].id : i \in Readable(work)}

\* C11: close leaves both dicts as they were, and a similarity_search made
\* on a closed store with a non-empty cache returns, with the ranking of the
\* cache as the close left it.
C11_ClosePreservesCache ==
    [][/\ (ret'.op = "close" /\ steps' # steps) =>
              (vectors' = vectors /\ texts' = texts)
       /\ (/\ conn = "closed"
           /\ ret'.op = "similarity_search"
           /\ steps' # steps
           /\ vectors # <<>>) =>
              /\ ret'.ok
              /\ ret'.value = Slice(SortDesc(Similarities(
                                  vectors, texts, Encode(ret'.q)), <<>>),
                                    ret'.k)]_vars

\* A query on a closed store returned pairs from the cache.
C11_Witness ==
    /\ ret.op = "similarity_search"
    /\ conn = "closed"
    /\ ret.ok
    /\ Len(ret.value) >= 1

\* C12: an add_texts made on a closed instance raises and changes neither
\* the dicts nor the table.
C12_ClosedIsTerminal ==
    [][(conn = "closed" /\ ret'.op = "add_texts" /\ steps' # steps) =>
           /\ ~ret'.ok
           /\ rows' = rows
           /\ work' = work
           /\ vectors' = vectors
           /\ texts' = texts]_vars

\* A batch of at least one pair was refused on a closed store whose cache
\* holds records.
C12_Witness ==
    /\ ret.op = "add_texts"
    /\ conn = "closed"
    /\ ~ret.ok
    /\ ZipLen(ret) >= 1
    /\ ~ExecuteRaises(ret.ids[1])
    /\ vectors # <<>>

\* The id "doc_i".
OrdinalId(i) == "doc_" \o ToString(i)

\* The call was add_texts(texts) with ids omitted: callers' own ids are drawn
\* from IdArgs, the ids of such a call are not.
IdsOmitted(r) ==
    /\ r.op = "add_texts"
    /\ Len(r.ids) = Len(r.texts)
    /\ \A i \in 1..Len(r.ids) : r.ids[i] \notin IdArgs

TextOfRow(t, id) == t[CHOOSE i \in 1..Len(t) : t[i].id = id].text

\* An add_texts without ids returned: it returned doc_0, doc_1, ... in input
\* order and doc_i holds the i-th text in the cache and in the table.
C16_Ordinals ==
    (IdsOmitted(ret) /\ ret.ok) =>
        /\ Len(ret.value) = Len(ret.texts)
        /\ \A i \in 1..Len(ret.texts) :
               /\ ret.value[i] = OrdinalId(i - 1)
               /\ OrdinalId(i - 1) \in RowIds(rows)
               /\ TextOfRow(rows, OrdinalId(i - 1)) = ret.texts[i]
               /\ OrdinalId(i - 1) \in DictKeys(texts)
               /\ DictGet(texts, OrdinalId(i - 1)) = ret.texts[i]

\* C16: add_texts without ids names the i-th text of the batch doc_i and
\* returns these ids in order; two such calls of m and n texts on a new
\* store leave max(m, n) records in the cache and in the table.
C16_DefaultIdsPerBatch ==
    /\ []C16_Ordinals
    /\ [][(/\ steps = 1
           /\ IdsOmitted(ret)
           /\ ret.ok
           /\ steps' = 2
           /\ IdsOmitted(ret')) =>
              LET mx == Max(Len(ret.texts), Len(ret'.texts))
              IN  /\ ret'.ok
                  /\ Len(rows') = mx
                  /\ Len(vectors') = mx
                  /\ Len(texts') = mx]_vars

\* Two calls without ids, of two texts and then of one, left two records.
C16_Witness ==
    /\ steps = 2
    /\ IdsOmitted(ret)
    /\ ret.ok
    /\ Len(ret.texts) = 1
    /\ RowIds(rows) = {"doc_0", "doc_1"}
    /\ DictKeys(vectors) = {"doc_0", "doc_1"}

\* C17: the two dicts always have the same keys, also after a call that
\* failed partway, and similarity_search never raises KeyError.
C17_CacheKeysConsistent ==
    /\ DictKeys(vectors) = DictKeys(texts)
    /\ ret.err # "KeyError"

\* An add_texts failed at its second pair, after caching the first.
C17_Witness ==
    /\ ret.op = "add_texts"
    /\ ~ret.ok
    /\ conn = "open"
    /\ ZipLen(ret) >= 2
    /\ ~ExecuteRaises(ret.ids[1])
    /\ ret.ids[1] \in DictKeys(vectors)

\* C13: one instance runs the full load from durable storage at most once.
C13_HydrationAtMostOnce == loads <= 1

\* Since the last close_vector_store every get_vector_store returned the
\* one instance constructed since then, which is the instance in _store.
C14_SameInstance ==
    returned # <<>> =>
        /\ built = 1
        /\ _store # None
        /\ \A i \in 1..Len(returned) : returned[i] = _store

\* C14: with callers that do not overlap, all get_vector_store calls between
\* two teardowns return the same instance, constructed by the first of
\* them; close_vector_store returns without effect only when _store is
\* None, and otherwise completes without error having closed the instance
\* in _store and set _store to None.
C14_SingletonLifecycle ==
    /\ []C14_SameInstance
    /\ [][(/\ hcalls' # hcalls
           /\ hpc' = hpc
           /\ hret'.op = "close_vector_store")
              => (_store = None /\ UNCHANGED <<_store, made, closed>>)]_vars
    /\ [][(\E c \in Callers : hpc[c] \in {"close", "reset"}
                              /\ hpc'[c] = "idle")
              => /\ hret'.op = "close_vector_store"
                 /\ hret'.err = ""
                 /\ _store # None
                 /\ _store \in closed'
                 /\ hret'.value = _store
                 /\ _store' = None
                 /\ made' = made]_vars
    /\ [][(hret'.op = "get_vector_store" /\ hret' # hret /\ returned = <<>>)
              => (hret'.value = made /\ built' = 1)]_vars

\* After a teardown a second instance was constructed and returned twice.
C14_Witness ==
    /\ made = 2
    /\ Len(returned) = 2
    /\ returned[1] = 2
    /\ 1 \in closed

\* C15: however the steps of concurrent get_vector_store calls interleave,
\* at most one instance is constructed for an uninitialized handle and all
\* callers are returned that instance.
C15_CreateOnce ==
    /\ built <= 1
    /\ \A i, j \in 1..Len(returned) : returned[i] = returned[j]

\* C18: the instance get_vector_store returns has an open connection.
C18_HandleIsLive ==
    hret.op = "get_vector_store" => hret.value \notin closed

\* C19: under any interleaving of decrement_token and add_tokens calls the
\* balance is never negative, no more decrements return True than tokens
\* were added, and a decrement_token that returns with the balance at 0
\* returns False and leaves it at 0.
C19_NeverOverSpent ==
    /\ tokens_remaining >= 0
    /\ granted <= added
    /\ (/\ tret.op = "decrement_token"
        /\ tret.value \in {"True", "False"}
        /\ tret.before = 0) => (tret.value = "False" /\ tret.after = 0)

====
